---- MODULE Spec2Model ----
(***************************************************************************)
(* Model of finalproject/protocols.cc: the driver main() and the two       *)
(* classes AodvExample and DsdvExample that set up an ns-3 simulation.     *)
(*                                                                         *)
(* Time values (ns3::Time) are integers in milliseconds.  A double d that  *)
(* is passed to Seconds() is written as a fraction num/den of seconds.     *)
(* uint32_t values that wrapped below zero are represented as WrapBase + x *)
(* (x < 0), WrapBase standing for 2^32, which TLC's integers cannot hold.  *)
(***************************************************************************)
EXTENDS Integers, Sequences, FiniteSets, TLC

VARIABLES select, mpc, out, aodv, dsdv

vars == <<select, mpc, out, aodv, dsdv>>

----------------------------------------------------------------------------
(* Bounds of the exploration *)

MaxSize == 5
MaxFail == 2

(* Program constants *)

DefaultSize == 5
DefaultNodeRM == 1
DefaultDuration == 50
SeedSize == 45
SeedForSeedSize == 8765
SeedOtherwise == 1234
CoordRange == 10000
PrintAt == 8

WrapBase == 2^30

(* values of the flags that a command line can carry; <<>> is "not given" *)
Sizes == 0..MaxSize
Fails == 0..MaxFail
Durations == {DefaultDuration, 7}
Opt(S) == {<<>>} \cup {<<v>> : v \in S}

(* outputs of rand(): small values, and multiples of CoordRange so that    *)
(* rand() % 10000 and rand() % (size-2) are both many-to-one               *)
RandVals == {0, 1, CoordRange, 2 * CoordRange}

(* what a read past the end of the stack array numbers[] can yield *)
GarbageVals == 0..MaxSize

(* the values that reading numbers[i] can yield beyond the stored ones:    *)
(* none (a placeholder that is not used) while i is inside the array       *)
Indeterminate(numbers, i) == IF i < Len(numbers) THEN {0} ELSE GarbageVals

(* order in which the three rand() arguments of Vector(...) are evaluated *)
ArgOrders == {"ltr", "rtl"}

Chars == {"a", "d", "x"}

----------------------------------------------------------------------------
(* Helpers shared by both classes *)

(* uint32_t a - b *)
Sub32(a, b) == IF a >= b THEN a - b ELSE WrapBase + (a - b)

(* ns3::Seconds (num/den) as a Time in milliseconds *)
Seconds(num, den) == (num * 1000) \div den

(* CommandLine::Parse of one flag bound to a member by AddValue *)
ParseFlag(member, arg) == IF arg = <<>> THEN member ELSE arg[1]

(* Vector (rand()%10000, rand()%10000, rand()%10000): r1, r2, r3 are the   *)
(* outputs of rand() in call order, ord the evaluation order of the        *)
(* arguments, which the language leaves unspecified                         *)
RandVector(r1, r2, r3, ord) ==
  IF ord = "ltr"
  THEN [x |-> r1 % CoordRange, y |-> r2 % CoordRange, z |-> r3 % CoordRange]
  ELSE [x |-> r3 % CoordRange, y |-> r2 % CoordRange, z |-> r1 % CoordRange]

(* an object of either class before its constructor has run *)
Absent ==
  [pc |-> "absent", size |-> 0, nodeRM |-> 0, duration |-> 0, pcap |-> FALSE,
   seed |-> 0, nodes |-> 0, devices |-> 0, pcapPrefix |-> "", routing |-> "none",
   routesFile |-> "", printAt |-> -1,
   pingSrc |-> -1, pingDst |-> -1, pingStart |-> -1, pingStop |-> -1,
   numbers |-> <<>>, i |-> 0, events |-> <<>>, stopAt |-> -1,
   calls |-> <<>>, oob |-> FALSE, wrapped |-> FALSE, badIndex |-> FALSE,
   modZero |-> FALSE]

----------------------------------------------------------------------------
(* class AodvExample *)

AodvExample ==
  [Absent EXCEPT !.pc = "Configure", !.size = DefaultSize, !.nodeRM = DefaultNodeRM,
                 !.duration = DefaultDuration, !.pcap = FALSE]

AodvSeed(size) == IF size = SeedSize THEN SeedForSeedSize ELSE SeedOtherwise

(* faulty variant: Configure reports failure *)
AodvConfigureResultFalse == FALSE

AodvConfigureResult == TRUE

AodvConfigure(t, args) ==
  LET sz == ParseFlag(t.size, args.size) IN
  [t EXCEPT !.pcap = ParseFlag(t.pcap, args.pcap),
            !.size = sz,
            !.duration = ParseFlag(t.duration, args.time),
            !.nodeRM = ParseFlag(t.nodeRM, args.fail),
            !.seed = AodvSeed(sz),
            !.pc = "configured"]

(* faulty variant: the internet stack is installed before the devices exist *)
AodvRunBodySwapped ==
  <<"CreateNodes", "InstallInternetStack", "CreateDevices", "InstallApplications",
    "Simulator::Stop", "Simulator::Run", "Simulator::Destroy">>

(* the body of Run, in call order *)
AodvRunBody ==
  <<"CreateNodes", "CreateDevices", "InstallInternetStack", "InstallApplications",
    "Simulator::Stop", "Simulator::Run", "Simulator::Destroy">>

(* the n-th statement of Run; past the last one Run returns *)
AodvRunAt(n) == IF n <= Len(AodvRunBody) THEN AodvRunBody[n] ELSE "returned"

AodvRun(t) == [t EXCEPT !.pc = AodvRunAt(1)]

AodvCreateNodes(t) ==
  [t EXCEPT !.nodes = t.size, !.calls = Append(@, "CreateNodes"),
            !.pc = AodvRunAt(Len(t.calls) + 2)]

AodvCreateDevices(t) ==
  [t EXCEPT !.devices = t.nodes,
            !.pcapPrefix = IF t.pcap THEN "aodv" ELSE "",
            !.calls = Append(@, "CreateDevices"),
            !.pc = AodvRunAt(Len(t.calls) + 2)]

AodvInstallInternetStack(t) ==
  [t EXCEPT !.routing = "aodv", !.routesFile = "aodv.routes",
            !.printAt = Seconds(PrintAt, 1),
            !.calls = Append(@, "InstallInternetStack"),
            !.pc = AodvRunAt(Len(t.calls) + 2)]

(* InstallApplications, first part: the ping application *)
AodvPingDst(size) == Sub32(size, 1)
AodvPingSrc(size) == size \div 2

AodvInstallPing(t) ==
  LET dst == AodvPingDst(t.size)
      src == AodvPingSrc(t.size)
      bad == dst >= t.devices \/ src >= t.nodes
  IN [t EXCEPT !.calls = Append(@, "InstallApplications"),
               !.wrapped = t.size < 1,
               !.badIndex = bad,
               !.pingDst = dst, !.pingSrc = src,
               !.pingStart = Seconds(0, 1),
               !.pingStop = Seconds(t.duration, 1) - Seconds(1, 1000),
               !.pc = IF bad THEN "crashed" ELSE "ia_fill"]

(* the first loop: numbers[i] = count, skipping the ping source *)
RECURSIVE AodvFillLoop(_, _, _, _, _)
AodvFillLoop(numbers, i, count, size, len) ==
  IF i < len
  THEN LET c == IF i = size \div 2 THEN count + 1 ELSE count
       IN AodvFillLoop(Append(numbers, c), i + 1, c + 1, size, len)
  ELSE numbers

(* faulty variant: the ping source is not skipped *)
AodvFillNoSkip(size) == [j \in 1..Sub32(size, 2) |-> j - 1]

AodvFill(size) == AodvFillLoop(<<>>, 0, 0, size, Sub32(size, 2))

(* faulty variant: the third loop runs once more (i <= nodeRM) *)
AodvRelocCondInclusive(i, nodeRM) == i <= nodeRM

(* loop conditions of the second and third loop *)
AodvShuffleCond(i, size) == i < Sub32(size, 2)
AodvRelocCond(i, nodeRM) == i < nodeRM

(* where InstallApplications continues once the shuffle loop is left *)
AodvAfterShuffle(t) ==
  [t EXCEPT !.i = 0,
            !.pc = IF AodvRelocCond(0, t.nodeRM) THEN "ia_reloc"
                   ELSE AodvRunAt(Len(t.calls) + 1)]

(* uint32_t numbers[size-2] and the first loop *)
AodvAllocFill(t) ==
  IF t.size < 2
  THEN [t EXCEPT !.wrapped = TRUE, !.pc = "crashed"]
  ELSE LET u == [t EXCEPT !.numbers = AodvFill(t.size), !.i = 0, !.pc = "ia_shuffle"]
       IN IF AodvShuffleCond(0, t.size) THEN u ELSE AodvAfterShuffle(u)

(* faulty variant: the swap without the temporary *)
AodvSwapNoTemp(numbers, i, k) ==
  LET a == [numbers EXCEPT ![i + 1] = numbers[k + 1]]
  IN [a EXCEPT ![k + 1] = a[i + 1]]

(* the swap of one iteration of the second loop; k is 0-based *)
AodvSwap(numbers, i, k) ==
  LET temp == numbers[i + 1]
  IN [numbers EXCEPT ![i + 1] = numbers[k + 1], ![k + 1] = temp]

(* one iteration of the second loop, r the output of rand() *)
AodvShuffleStep(t, r) ==
  LET len == Sub32(t.size, 2)
      k == IF len = 0 THEN 0 ELSE r % len
      u == [t EXCEPT !.numbers = AodvSwap(t.numbers, t.i, k),
                     !.oob = @ \/ t.i >= Len(t.numbers) \/ k >= Len(t.numbers),
                     !.modZero = @ \/ len = 0,
                     !.i = t.i + 1]
  IN IF AodvShuffleCond(u.i, u.size) THEN u ELSE AodvAfterShuffle(u)

(* faulty variant: the relocation is scheduled at the end of the run *)
AodvRelocTimeAtEnd(duration) == Seconds(duration, 1)

AodvRelocTime(duration) == Seconds(duration, 2)

(* one iteration of the third loop; g is what numbers[i] yields when i is  *)
(* past the end of the array                                                *)
AodvRelocStep(t, g, r1, r2, r3, ord) ==
  LET inside == t.i < Len(t.numbers)
      n == IF inside THEN t.numbers[t.i + 1] ELSE g
      u == [t EXCEPT !.oob = @ \/ ~inside]
  IN IF n >= t.nodes
     THEN [u EXCEPT !.badIndex = TRUE, !.pc = "crashed"]
     ELSE LET v == [u EXCEPT !.events = Append(@, [time |-> AodvRelocTime(t.duration),
                                                   node |-> n,
                                                   pos |-> RandVector(r1, r2, r3, ord)]),
                             !.i = t.i + 1]
          IN IF AodvRelocCond(v.i, v.nodeRM) THEN v
             ELSE [v EXCEPT !.pc = AodvRunAt(Len(v.calls) + 1)]

AodvSimulatorStop(t) ==
  [t EXCEPT !.stopAt = Seconds(t.duration, 1), !.calls = Append(@, "Simulator::Stop"),
            !.pc = AodvRunAt(Len(t.calls) + 2)]

AodvSimulatorRun(t) ==
  [t EXCEPT !.calls = Append(@, "Simulator::Run"), !.pc = AodvRunAt(Len(t.calls) + 2)]

AodvSimulatorDestroy(t) ==
  [t EXCEPT !.calls = Append(@, "Simulator::Destroy"), !.pc = AodvRunAt(Len(t.calls) + 2)]

----------------------------------------------------------------------------
(* class DsdvExample *)

DsdvExample ==
  [Absent EXCEPT !.pc = "Configure", !.size = DefaultSize, !.nodeRM = DefaultNodeRM,
                 !.duration = DefaultDuration, !.pcap = FALSE]

DsdvSeed(size) == IF size = SeedSize THEN SeedForSeedSize ELSE SeedOtherwise

DsdvConfigureResult == TRUE

DsdvConfigure(t, args) ==
  LET sz == ParseFlag(t.size, args.size) IN
  [t EXCEPT !.pcap = ParseFlag(t.pcap, args.pcap),
            !.size = sz,
            !.duration = ParseFlag(t.duration, args.time),
            !.nodeRM = ParseFlag(t.nodeRM, args.fail),
            !.seed = DsdvSeed(sz),
            !.pc = "configured"]

(* the body of Run, in call order *)
DsdvRunBody ==
  <<"CreateNodes", "CreateDevices", "InstallInternetStack", "InstallApplications",
    "Simulator::Stop", "Simulator::Run", "Simulator::Destroy">>

(* the n-th statement of Run; past the last one Run returns *)
DsdvRunAt(n) == IF n <= Len(DsdvRunBody) THEN DsdvRunBody[n] ELSE "returned"

DsdvRun(t) == [t EXCEPT !.pc = DsdvRunAt(1)]

DsdvCreateNodes(t) ==
  [t EXCEPT !.nodes = t.size, !.calls = Append(@, "CreateNodes"),
            !.pc = DsdvRunAt(Len(t.calls) + 2)]

DsdvCreateDevices(t) ==
  [t EXCEPT !.devices = t.nodes,
            !.pcapPrefix = IF t.pcap THEN "dsdv" ELSE "",
            !.calls = Append(@, "CreateDevices"),
            !.pc = DsdvRunAt(Len(t.calls) + 2)]

DsdvInstallInternetStack(t) ==
  [t EXCEPT !.routing = "dsdv", !.routesFile = "dsdv.routes",
            !.printAt = Seconds(PrintAt, 1),
            !.calls = Append(@, "InstallInternetStack"),
            !.pc = DsdvRunAt(Len(t.calls) + 2)]

(* InstallApplications, first part: the ping application *)
DsdvPingDst(size) == Sub32(size, 1)
DsdvPingSrc(size) == size \div 2

DsdvInstallPing(t) ==
  LET dst == DsdvPingDst(t.size)
      src == DsdvPingSrc(t.size)
      bad == dst >= t.devices \/ src >= t.nodes
  IN [t EXCEPT !.calls = Append(@, "InstallApplications"),
               !.wrapped = t.size < 1,
               !.badIndex = bad,
               !.pingDst = dst, !.pingSrc = src,
               !.pingStart = Seconds(0, 1),
               !.pingStop = Seconds(t.duration, 1) - Seconds(1, 1000),
               !.pc = IF bad THEN "crashed" ELSE "ia_fill"]

(* the first loop: numbers[i] = count, skipping the ping source *)
RECURSIVE DsdvFillLoop(_, _, _, _, _)
DsdvFillLoop(numbers, i, count, size, len) ==
  IF i < len
  THEN LET c == IF i = size \div 2 THEN count + 1 ELSE count
       IN DsdvFillLoop(Append(numbers, c), i + 1, c + 1, size, len)
  ELSE numbers

DsdvFill(size) == DsdvFillLoop(<<>>, 0, 0, size, Sub32(size, 2))

(* loop conditions of the second and third loop *)
DsdvShuffleCond(i, size) == i < Sub32(size, 2)
DsdvRelocCond(i, nodeRM) == i < nodeRM

(* where InstallApplications continues once the shuffle loop is left *)
DsdvAfterShuffle(t) ==
  [t EXCEPT !.i = 0,
            !.pc = IF DsdvRelocCond(0, t.nodeRM) THEN "ia_reloc"
                   ELSE DsdvRunAt(Len(t.calls) + 1)]

(* uint32_t numbers[size-2] and the first loop *)
DsdvAllocFill(t) ==
  IF t.size < 2
  THEN [t EXCEPT !.wrapped = TRUE, !.pc = "crashed"]
  ELSE LET u == [t EXCEPT !.numbers = DsdvFill(t.size), !.i = 0, !.pc = "ia_shuffle"]
       IN IF DsdvShuffleCond(0, t.size) THEN u ELSE DsdvAfterShuffle(u)

(* the swap of one iteration of the second loop; k is 0-based *)
DsdvSwap(numbers, i, k) ==
  LET temp == numbers[i + 1]
  IN [numbers EXCEPT ![i + 1] = numbers[k + 1], ![k + 1] = temp]

(* one iteration of the second loop, r the output of rand() *)
DsdvShuffleStep(t, r) ==
  LET len == Sub32(t.size, 2)
      k == IF len = 0 THEN 0 ELSE r % len
      u == [t EXCEPT !.numbers = DsdvSwap(t.numbers, t.i, k),
                     !.oob = @ \/ t.i >= Len(t.numbers) \/ k >= Len(t.numbers),
                     !.modZero = @ \/ len = 0,
                     !.i = t.i + 1]
  IN IF DsdvShuffleCond(u.i, u.size) THEN u ELSE DsdvAfterShuffle(u)

DsdvRelocTime(duration) == Seconds(duration, 2)

(* one iteration of the third loop; g is what numbers[i] yields when i is  *)
(* past the end of the array                                                *)
DsdvRelocStep(t, g, r1, r2, r3, ord) ==
  LET inside == t.i < Len(t.numbers)
      n == IF inside THEN t.numbers[t.i + 1] ELSE g
      u == [t EXCEPT !.oob = @ \/ ~inside]
  IN IF n >= t.nodes
     THEN [u EXCEPT !.badIndex = TRUE, !.pc = "crashed"]
     ELSE LET v == [u EXCEPT !.events = Append(@, [time |-> DsdvRelocTime(t.duration),
                                                   node |-> n,
                                                   pos |-> RandVector(r1, r2, r3, ord)]),
                             !.i = t.i + 1]
          IN IF DsdvRelocCond(v.i, v.nodeRM) THEN v
             ELSE [v EXCEPT !.pc = DsdvRunAt(Len(v.calls) + 1)]

DsdvSimulatorStop(t) ==
  [t EXCEPT !.stopAt = Seconds(t.duration, 1), !.calls = Append(@, "Simulator::Stop"),
            !.pc = DsdvRunAt(Len(t.calls) + 2)]

DsdvSimulatorRun(t) ==
  [t EXCEPT !.calls = Append(@, "Simulator::Run"), !.pc = DsdvRunAt(Len(t.calls) + 2)]

DsdvSimulatorDestroy(t) ==
  [t EXCEPT !.calls = Append(@, "Simulator::Destroy"), !.pc = DsdvRunAt(Len(t.calls) + 2)]

----------------------------------------------------------------------------
(* main *)

(* the command lines: every flag is either absent or carries a value *)
Args == [pcap : Opt(BOOLEAN), size : Opt(Sizes), time : Opt(Durations), fail : Opt(Fails)]

(* faulty variant: every selection but 'd' is taken for 'a' *)
MainDispatchDefaultAodv(c) == IF c = "d" THEN "dsdv" ELSE "aodv"

(* the if / else if / else on select *)
MainDispatch(c) == IF c = "a" THEN "aodv" ELSE IF c = "d" THEN "dsdv" ELSE "none"

Init ==
  /\ select = "" /\ mpc = "prompt" /\ out = "none"
  /\ aodv = Absent /\ dsdv = Absent

(* std::cin >> select *)
MainPrompt ==
  /\ mpc = "prompt"
  /\ \E c \in Chars : select' = c
  /\ mpc' = "branch"
  /\ UNCHANGED <<out, aodv, dsdv>>

(* select == 'a': construct the object, Configure, and the fatal-error check *)
MainAodvConfigure ==
  /\ mpc = "branch" /\ MainDispatch(select) = "aodv"
  /\ \E args \in Args :
       /\ aodv' = AodvConfigure(AodvExample, args)
       /\ mpc' = IF AodvConfigureResult THEN "aodv" ELSE "fatal"
       /\ out' = IF AodvConfigureResult THEN out ELSE "fatal_error"
  /\ UNCHANGED <<select, dsdv>>

(* test.Run () *)
MainAodvRun ==
  /\ mpc = "aodv" /\ aodv.pc = "configured"
  /\ aodv' = AodvRun(aodv)
  /\ UNCHANGED <<select, mpc, out, dsdv>>

DoAodvCreateNodes ==
  /\ mpc = "aodv" /\ aodv.pc = "CreateNodes"
  /\ aodv' = AodvCreateNodes(aodv)
  /\ UNCHANGED <<select, mpc, out, dsdv>>

DoAodvCreateDevices ==
  /\ mpc = "aodv" /\ aodv.pc = "CreateDevices"
  /\ aodv' = AodvCreateDevices(aodv)
  /\ UNCHANGED <<select, mpc, out, dsdv>>

DoAodvInstallInternetStack ==
  /\ mpc = "aodv" /\ aodv.pc = "InstallInternetStack"
  /\ aodv' = AodvInstallInternetStack(aodv)
  /\ UNCHANGED <<select, mpc, out, dsdv>>

DoAodvInstallPing ==
  /\ mpc = "aodv" /\ aodv.pc = "InstallApplications"
  /\ aodv' = AodvInstallPing(aodv)
  /\ UNCHANGED <<select, mpc, out, dsdv>>

DoAodvAllocFill ==
  /\ mpc = "aodv" /\ aodv.pc = "ia_fill"
  /\ aodv' = AodvAllocFill(aodv)
  /\ UNCHANGED <<select, mpc, out, dsdv>>

DoAodvShuffleStep ==
  /\ mpc = "aodv" /\ aodv.pc = "ia_shuffle"
  /\ \E r \in RandVals : aodv' = AodvShuffleStep(aodv, r)
  /\ UNCHANGED <<select, mpc, out, dsdv>>

DoAodvRelocStep ==
  /\ mpc = "aodv" /\ aodv.pc = "ia_reloc"
  /\ \E g \in Indeterminate(aodv.numbers, aodv.i), r1, r2, r3 \in RandVals,
        ord \in ArgOrders :
       aodv' = AodvRelocStep(aodv, g, r1, r2, r3, ord)
  /\ UNCHANGED <<select, mpc, out, dsdv>>

DoAodvSimulatorStop ==
  /\ mpc = "aodv" /\ aodv.pc = "Simulator::Stop"
  /\ aodv' = AodvSimulatorStop(aodv)
  /\ UNCHANGED <<select, mpc, out, dsdv>>

DoAodvSimulatorRun ==
  /\ mpc = "aodv" /\ aodv.pc = "Simulator::Run"
  /\ aodv' = AodvSimulatorRun(aodv)
  /\ UNCHANGED <<select, mpc, out, dsdv>>

DoAodvSimulatorDestroy ==
  /\ mpc = "aodv" /\ aodv.pc = "Simulator::Destroy"
  /\ aodv' = AodvSimulatorDestroy(aodv)
  /\ UNCHANGED <<select, mpc, out, dsdv>>

(* return 0 after test.Run () *)
MainAodvReturn ==
  /\ mpc = "aodv" /\ aodv.pc = "returned"
  /\ mpc' = "done" /\ out' = "return0"
  /\ UNCHANGED <<select, aodv, dsdv>>

(* select == 'd': construct the object, Configure, and the fatal-error check *)
MainDsdvConfigure ==
  /\ mpc = "branch" /\ MainDispatch(select) = "dsdv"
  /\ \E args \in Args :
       /\ dsdv' = DsdvConfigure(DsdvExample, args)
       /\ mpc' = IF DsdvConfigureResult THEN "dsdv" ELSE "fatal"
       /\ out' = IF DsdvConfigureResult THEN out ELSE "fatal_error"
  /\ UNCHANGED <<select, aodv>>

(* test.Run () *)
MainDsdvRun ==
  /\ mpc = "dsdv" /\ dsdv.pc = "configured"
  /\ dsdv' = DsdvRun(dsdv)
  /\ UNCHANGED <<select, mpc, out, aodv>>

DoDsdvCreateNodes ==
  /\ mpc = "dsdv" /\ dsdv.pc = "CreateNodes"
  /\ dsdv' = DsdvCreateNodes(dsdv)
  /\ UNCHANGED <<select, mpc, out, aodv>>

DoDsdvCreateDevices ==
  /\ mpc = "dsdv" /\ dsdv.pc = "CreateDevices"
  /\ dsdv' = DsdvCreateDevices(dsdv)
  /\ UNCHANGED <<select, mpc, out, aodv>>

DoDsdvInstallInternetStack ==
  /\ mpc = "dsdv" /\ dsdv.pc = "InstallInternetStack"
  /\ dsdv' = DsdvInstallInternetStack(dsdv)
  /\ UNCHANGED <<select, mpc, out, aodv>>

DoDsdvInstallPing ==
  /\ mpc = "dsdv" /\ dsdv.pc = "InstallApplications"
  /\ dsdv' = DsdvInstallPing(dsdv)
  /\ UNCHANGED <<select, mpc, out, aodv>>

DoDsdvAllocFill ==
  /\ mpc = "dsdv" /\ dsdv.pc = "ia_fill"
  /\ dsdv' = DsdvAllocFill(dsdv)
  /\ UNCHANGED <<select, mpc, out, aodv>>

DoDsdvShuffleStep ==
  /\ mpc = "dsdv" /\ dsdv.pc = "ia_shuffle"
  /\ \E r \in RandVals : dsdv' = DsdvShuffleStep(dsdv, r)
  /\ UNCHANGED <<select, mpc, out, aodv>>

DoDsdvRelocStep ==
  /\ mpc = "dsdv" /\ dsdv.pc = "ia_reloc"
  /\ \E g \in Indeterminate(dsdv.numbers, dsdv.i), r1, r2, r3 \in RandVals,
        ord \in ArgOrders :
       dsdv' = DsdvRelocStep(dsdv, g, r1, r2, r3, ord)
  /\ UNCHANGED <<select, mpc, out, aodv>>

DoDsdvSimulatorStop ==
  /\ mpc = "dsdv" /\ dsdv.pc = "Simulator::Stop"
  /\ dsdv' = DsdvSimulatorStop(dsdv)
  /\ UNCHANGED <<select, mpc, out, aodv>>

DoDsdvSimulatorRun ==
  /\ mpc = "dsdv" /\ dsdv.pc = "Simulator::Run"
  /\ dsdv' = DsdvSimulatorRun(dsdv)
  /\ UNCHANGED <<select, mpc, out, aodv>>

DoDsdvSimulatorDestroy ==
  /\ mpc = "dsdv" /\ dsdv.pc = "Simulator::Destroy"
  /\ dsdv' = DsdvSimulatorDestroy(dsdv)
  /\ UNCHANGED <<select, mpc, out, aodv>>

(* return 0 after test.Run () *)
MainDsdvReturn ==
  /\ mpc = "dsdv" /\ dsdv.pc = "returned"
  /\ mpc' = "done" /\ out' = "return0"
  /\ UNCHANGED <<select, aodv, dsdv>>

(* the final else: neither 'a' nor 'd' *)
MainBadSelection ==
  /\ mpc = "branch" /\ MainDispatch(select) = "none"
  /\ mpc' = "done" /\ out' = "incorrect_selection"
  /\ UNCHANGED <<select, aodv, dsdv>>

Next ==
  \/ MainPrompt
  \/ MainBadSelection
  \/ MainAodvConfigure
  \/ MainAodvRun
  \/ DoAodvCreateNodes
  \/ DoAodvCreateDevices
  \/ DoAodvInstallInternetStack
  \/ DoAodvInstallPing
  \/ DoAodvAllocFill
  \/ DoAodvShuffleStep
  \/ DoAodvRelocStep
  \/ DoAodvSimulatorStop
  \/ DoAodvSimulatorRun
  \/ DoAodvSimulatorDestroy
  \/ MainAodvReturn
  \/ MainDsdvConfigure
  \/ MainDsdvRun
  \/ DoDsdvCreateNodes
  \/ DoDsdvCreateDevices
  \/ DoDsdvInstallInternetStack
  \/ DoDsdvInstallPing
  \/ DoDsdvAllocFill
  \/ DoDsdvShuffleStep
  \/ DoDsdvRelocStep
  \/ DoDsdvSimulatorStop
  \/ DoDsdvSimulatorRun
  \/ DoDsdvSimulatorDestroy
  \/ MainDsdvReturn

Spec == Init /\ [][Next]_vars

----------------------------------------------------------------------------
(* The two classes side by side: both objects are constructed, get the     *)
(* same command line and the same outputs of rand(), and take each step of *)
(* Configure and Run together.  What a read past the end of numbers[]      *)
(* yields is not an input: each object reads its own stack.                *)

PairInit ==
  /\ select = "" /\ mpc = "pair" /\ out = "none"
  /\ aodv = AodvExample /\ dsdv = DsdvExample

PairConfigure ==
  /\ mpc = "pair" /\ aodv.pc = "Configure" /\ dsdv.pc = "Configure"
  /\ \E args \in Args :
       /\ aodv' = AodvConfigure(aodv, args)
       /\ dsdv' = DsdvConfigure(dsdv, args)
  /\ UNCHANGED <<select, mpc, out>>

PairRun ==
  /\ mpc = "pair" /\ (aodv.pc = "configured" \/ dsdv.pc = "configured")
  /\ aodv' = IF aodv.pc = "configured" THEN AodvRun(aodv) ELSE aodv
  /\ dsdv' = IF dsdv.pc = "configured" THEN DsdvRun(dsdv) ELSE dsdv
  /\ UNCHANGED <<select, mpc, out>>

PairCreateNodes ==
  /\ mpc = "pair" /\ (aodv.pc = "CreateNodes" \/ dsdv.pc = "CreateNodes")
  /\ aodv' = IF aodv.pc = "CreateNodes" THEN AodvCreateNodes(aodv) ELSE aodv
  /\ dsdv' = IF dsdv.pc = "CreateNodes" THEN DsdvCreateNodes(dsdv) ELSE dsdv
  /\ UNCHANGED <<select, mpc, out>>

PairCreateDevices ==
  /\ mpc = "pair" /\ (aodv.pc = "CreateDevices" \/ dsdv.pc = "CreateDevices")
  /\ aodv' = IF aodv.pc = "CreateDevices" THEN AodvCreateDevices(aodv) ELSE aodv
  /\ dsdv' = IF dsdv.pc = "CreateDevices" THEN DsdvCreateDevices(dsdv) ELSE dsdv
  /\ UNCHANGED <<select, mpc, out>>

PairInstallInternetStack ==
  /\ mpc = "pair" /\ (aodv.pc = "InstallInternetStack" \/ dsdv.pc = "InstallInternetStack")
  /\ aodv' = IF aodv.pc = "InstallInternetStack" THEN AodvInstallInternetStack(aodv) ELSE aodv
  /\ dsdv' = IF dsdv.pc = "InstallInternetStack" THEN DsdvInstallInternetStack(dsdv) ELSE dsdv
  /\ UNCHANGED <<select, mpc, out>>

PairInstallPing ==
  /\ mpc = "pair" /\ (aodv.pc = "InstallApplications" \/ dsdv.pc = "InstallApplications")
  /\ aodv' = IF aodv.pc = "InstallApplications" THEN AodvInstallPing(aodv) ELSE aodv
  /\ dsdv' = IF dsdv.pc = "InstallApplications" THEN DsdvInstallPing(dsdv) ELSE dsdv
  /\ UNCHANGED <<select, mpc, out>>

PairAllocFill ==
  /\ mpc = "pair" /\ (aodv.pc = "ia_fill" \/ dsdv.pc = "ia_fill")
  /\ aodv' = IF aodv.pc = "ia_fill" THEN AodvAllocFill(aodv) ELSE aodv
  /\ dsdv' = IF dsdv.pc = "ia_fill" THEN DsdvAllocFill(dsdv) ELSE dsdv
  /\ UNCHANGED <<select, mpc, out>>

PairSimulatorStop ==
  /\ mpc = "pair" /\ (aodv.pc = "Simulator::Stop" \/ dsdv.pc = "Simulator::Stop")
  /\ aodv' = IF aodv.pc = "Simulator::Stop" THEN AodvSimulatorStop(aodv) ELSE aodv
  /\ dsdv' = IF dsdv.pc = "Simulator::Stop" THEN DsdvSimulatorStop(dsdv) ELSE dsdv
  /\ UNCHANGED <<select, mpc, out>>

PairSimulatorRun ==
  /\ mpc = "pair" /\ (aodv.pc = "Simulator::Run" \/ dsdv.pc = "Simulator::Run")
  /\ aodv' = IF aodv.pc = "Simulator::Run" THEN AodvSimulatorRun(aodv) ELSE aodv
  /\ dsdv' = IF dsdv.pc = "Simulator::Run" THEN DsdvSimulatorRun(dsdv) ELSE dsdv
  /\ UNCHANGED <<select, mpc, out>>

PairSimulatorDestroy ==
  /\ mpc = "pair" /\ (aodv.pc = "Simulator::Destroy" \/ dsdv.pc = "Simulator::Destroy")
  /\ aodv' = IF aodv.pc = "Simulator::Destroy" THEN AodvSimulatorDestroy(aodv) ELSE aodv
  /\ dsdv' = IF dsdv.pc = "Simulator::Destroy" THEN DsdvSimulatorDestroy(dsdv) ELSE dsdv
  /\ UNCHANGED <<select, mpc, out>>

PairShuffleStep ==
  /\ mpc = "pair" /\ (aodv.pc = "ia_shuffle" \/ dsdv.pc = "ia_shuffle")
  /\ \E r \in RandVals :
       /\ aodv' = IF aodv.pc = "ia_shuffle" THEN AodvShuffleStep(aodv, r) ELSE aodv
       /\ dsdv' = IF dsdv.pc = "ia_shuffle" THEN DsdvShuffleStep(dsdv, r) ELSE dsdv
  /\ UNCHANGED <<select, mpc, out>>

PairRelocStep ==
  /\ mpc = "pair" /\ (aodv.pc = "ia_reloc" \/ dsdv.pc = "ia_reloc")
  /\ \E ga \in Indeterminate(aodv.numbers, aodv.i),
        gd \in Indeterminate(dsdv.numbers, dsdv.i),
        r1, r2, r3 \in RandVals, ord \in ArgOrders :
       /\ aodv' = IF aodv.pc = "ia_reloc"
                  THEN AodvRelocStep(aodv, ga, r1, r2, r3, ord) ELSE aodv
       /\ dsdv' = IF dsdv.pc = "ia_reloc"
                  THEN DsdvRelocStep(dsdv, gd, r1, r2, r3, ord) ELSE dsdv
  /\ UNCHANGED <<select, mpc, out>>

PairNext ==
  \/ PairConfigure
  \/ PairRun
  \/ PairCreateNodes
  \/ PairCreateDevices
  \/ PairInstallInternetStack
  \/ PairInstallPing
  \/ PairAllocFill
  \/ PairSimulatorStop
  \/ PairSimulatorRun
  \/ PairSimulatorDestroy
  \/ PairShuffleStep
  \/ PairRelocStep

PairSpec == PairInit /\ [][PairNext]_vars

----------------------------------------------------------------------------
(* Vocabulary of the properties *)

Objs == {t \in {aodv, dsdv} : t.pc # "absent"}

(* the flag values on which every access to numbers[] is inside the array *)
InRange(t) == t.size >= 3 /\ t.nodeRM <= t.size - 2

(* InstallApplications has returned *)
PastInstall(t) ==
  t.pc \in {"Simulator::Stop", "Simulator::Run", "Simulator::Destroy", "returned"}

(* numbers[] has been filled *)
Filled(t) == t.pc \in {"ia_shuffle", "ia_reloc"} \/ (PastInstall(t) /\ ~t.wrapped)

Range(q) == {q[j] : j \in 1..Len(q)}
Count(q, v) == Cardinality({j \in 1..Len(q) : q[j] = v})
IsPermutation(p, q) ==
  /\ Len(p) = Len(q)
  /\ \A v \in Range(p) \cup Range(q) : Count(p, v) = Count(q, v)
IsPrefix(p, q) == Len(p) <= Len(q) /\ \A j \in 1..Len(p) : p[j] = q[j]
Simulated(t) == \E j \in 1..Len(t.calls) : t.calls[j] = "Simulator::Run"

SetupSequence ==
  <<"CreateNodes", "CreateDevices", "InstallInternetStack", "InstallApplications",
    "Simulator::Stop", "Simulator::Run", "Simulator::Destroy">>

----------------------------------------------------------------------------
(* C1: for size >= 3 and fail <= size-2, InstallApplications schedules     *)
(* exactly nodeRM relocation events, every one of them at duration/2, half *)
(* of the time given to Simulator::Stop, and none at any other time.       *)
C1_RelocationsAtMidpoint ==
  \A t \in Objs : InRange(t) =>
    /\ \A j \in 1..Len(t.events) :
         /\ 2 * t.events[j].time = Seconds(t.duration, 1)
         /\ t.stopAt # -1 => 2 * t.events[j].time = t.stopAt
    /\ PastInstall(t) =>
         Cardinality({j \in 1..Len(t.events) :
                        2 * t.events[j].time = Seconds(t.duration, 1)}) = t.nodeRM

C1_Witness ==
  /\ aodv.pc = "returned" /\ InRange(aodv) /\ aodv.nodeRM = 2
  /\ Len(aodv.events) = 2 /\ aodv.duration = 7 /\ aodv.events[2].time = 3500
  /\ aodv.stopAt = 7000

(* C2 as stated: in every execution of main exactly one of the two routing *)
(* protocols is installed and simulated.                                   *)
C2_ExactlyOneProtocol ==
  mpc = "done" =>
    \/ aodv.routing = "aodv" /\ Simulated(aodv) /\ dsdv.routing = "none"
    \/ dsdv.routing = "dsdv" /\ Simulated(dsdv) /\ aodv.routing = "none"

(* C2 amended: at most one protocol is installed and simulated: selection  *)
(* 'a' constructs, configures and runs only AodvExample, selection 'd'     *)
(* only DsdvExample, every other selection neither; no simulation runs     *)
(* without its protocol installed.                                         *)
C2_AtMostOneProtocol ==
  /\ select = "a" => dsdv = Absent /\ aodv.routing \in {"none", "aodv"}
  /\ select = "d" => aodv = Absent /\ dsdv.routing \in {"none", "dsdv"}
  /\ select \notin {"a", "d"} => aodv = Absent /\ dsdv = Absent
  /\ Simulated(aodv) => aodv.routing = "aodv"
  /\ Simulated(dsdv) => dsdv.routing = "dsdv"
  /\ mpc = "done" /\ select = "a" => Simulated(aodv)
  /\ mpc = "done" /\ select = "d" => Simulated(dsdv)

C2_Witness ==
  /\ mpc = "done" /\ select = "d" /\ dsdv.routing = "dsdv" /\ Simulated(dsdv)
  /\ aodv = Absent

(* C3 as stated: each run of InstallApplications schedules exactly one     *)
(* relocation event, for every value of the size and fail flags.           *)
C3_ExactlyOneRelocation ==
  \A t \in Objs : PastInstall(t) => Len(t.events) = 1

(* C3 amended: for size >= 3 and fail <= size-2 each run of                *)
(* InstallApplications schedules exactly nodeRM relocation events, one per *)
(* iteration of its last loop; exactly one only when fail is 1, the        *)
(* default.                                                                *)
C3_SchedulesNodeRMEvents ==
  \A t \in Objs : InRange(t) =>
    /\ t.pc = "ia_reloc" => Len(t.events) = t.i /\ t.i < t.nodeRM
    /\ PastInstall(t) => Len(t.events) = t.nodeRM
    /\ PastInstall(t) /\ t.nodeRM = DefaultNodeRM => Len(t.events) = 1

C3_Witness ==
  /\ PastInstall(dsdv) /\ InRange(dsdv) /\ dsdv.nodeRM = 2 /\ Len(dsdv.events) = 2

(* C4: the ping runs between two different nodes: for every size that      *)
(* Configure accepts, the node the ping is installed on (size/2) is not    *)
(* the node that is pinged (size-1), and both are indices in 0..size-1.    *)
C4_PingBetweenDifferentNodes ==
  \A t \in Objs : t.pingSrc # -1 =>
    /\ t.pingSrc # t.pingDst
    /\ t.pingSrc \in 0..(t.size - 1)
    /\ t.pingDst \in 0..(t.size - 1)

(* C5: Run calls CreateNodes, CreateDevices, InstallInternetStack and      *)
(* InstallApplications once each, in that order, all before Simulator::Run *)
(* starts, and Simulator::Destroy only after Simulator::Run, whatever the  *)
(* flags.                                                                  *)
C5_FixedSetupSequence ==
  \A t \in Objs :
    /\ IsPrefix(t.calls, SetupSequence)
    /\ t.pc = "returned" => t.calls = SetupSequence
    /\ t.pc = "Simulator::Run" => Len(t.calls) = 5

C5_Witness ==
  /\ aodv.pc = "returned" /\ aodv.calls = SetupSequence
  /\ aodv.pcap /\ aodv.size = 3 /\ aodv.nodeRM = 0

(* C6 as stated: every execution of main either aborts through             *)
(* NS_FATAL_ERROR because Configure returned false, or goes on to          *)
(* configure and run a simulation.                                         *)
C6_AbortOrSimulate ==
  mpc = "done" => out = "fatal_error" \/ Simulated(aodv) \/ Simulated(dsdv)

(* C6 amended: main has two failure branches: the fatal-error check on the *)
(* result of Configure, which is never taken because Configure always      *)
(* returns true, and the branch for a selection other than 'a' and 'd',    *)
(* which reports the incorrect selection and returns without constructing, *)
(* configuring or running anything; with selection 'a' or 'd' main always  *)
(* goes from Configure on to Run.                                          *)
C6_OutcomesOfMain ==
  /\ mpc # "fatal" /\ out # "fatal_error"
  /\ out = "incorrect_selection" <=> mpc = "done" /\ select \notin {"a", "d"}
  /\ out = "incorrect_selection" => aodv = Absent /\ dsdv = Absent
  /\ mpc = "aodv" => select = "a" /\ aodv.pc \notin {"absent", "Configure"}
  /\ mpc = "dsdv" => select = "d" /\ dsdv.pc \notin {"absent", "Configure"}
  /\ out = "return0" => mpc = "done" /\ (Simulated(aodv) \/ Simulated(dsdv))

C6_Witness ==
  /\ mpc = "done" /\ out = "incorrect_selection" /\ select = "x"

(* C7: on the same flags and the same outputs of rand() the two classes    *)
(* choose the same seed, create the same number of nodes, install the same *)
(* ping and schedule relocations of the same nodes to the same coordinates *)
(* at the same time.                                                       *)
C7_DriversEquivalent ==
  mpc = "pair" =>
    /\ aodv.seed = dsdv.seed
    /\ aodv.nodes = dsdv.nodes
    /\ aodv.pingSrc = dsdv.pingSrc /\ aodv.pingDst = dsdv.pingDst
    /\ aodv.pingStart = dsdv.pingStart /\ aodv.pingStop = dsdv.pingStop
    /\ aodv.events = dsdv.events

(* C8: for size >= 3 and fail <= size-2 no node chosen for relocation is   *)
(* the ping source size/2 or the ping destination size-1; the candidate    *)
(* array holds exactly the indices 0..size-2 without size/2.               *)
C8_RelocationSparesPing ==
  \A t \in Objs : InRange(t) =>
    /\ \A j \in 1..Len(t.events) :
         /\ t.events[j].node # t.pingSrc /\ t.events[j].node # t.pingDst
         /\ t.events[j].node \notin {t.size \div 2, t.size - 1}
    /\ Filled(t) => Range(t.numbers) = (0..(t.size - 2)) \ {t.size \div 2}

C8_Witness ==
  /\ InRange(aodv) /\ aodv.size = 5 /\ PastInstall(aodv) /\ Len(aodv.events) = 2
  /\ aodv.pingSrc = 2 /\ aodv.pingDst = 4 /\ aodv.events[1].node = 3

(* C9: the shuffle loop keeps numbers a permutation of its initial         *)
(* contents after every swap; hence for fail <= size-2 the relocated nodes *)
(* are pairwise distinct.                                                  *)
C9_ShuffleKeepsPermutation ==
  /\ Filled(aodv) => IsPermutation(aodv.numbers, AodvFill(aodv.size))
  /\ Filled(dsdv) => IsPermutation(dsdv.numbers, DsdvFill(dsdv.size))
  /\ \A t \in Objs : InRange(t) =>
       \A j, k \in 1..Len(t.events) : j # k => t.events[j].node # t.events[k].node

C9_Witness ==
  /\ dsdv.pc = "ia_reloc" /\ InRange(dsdv) /\ dsdv.size = 5
  /\ dsdv.numbers = <<3, 0, 1>> /\ Len(dsdv.events) = 1 /\ dsdv.nodeRM = 2

(* C10: for every size and fail that Configure accepts, every read and     *)
(* write of numbers[] uses an index inside the array, size-1 and size-2    *)
(* never wrap below zero, and rand() % (size-2) is never a modulo by zero. *)
C10_ArrayAccessInBounds ==
  \A t \in Objs : ~t.oob /\ ~t.wrapped /\ ~t.modZero

====
